---- MODULE Spec2Model ----
\* A model of the per-thread stack sampler of ext/stacks/stacks.c: the
\* thread-local atomics, the SIGALRM handler, the postponed job that records a
\* sample, and the methods attached to ScoutApm::Instruments::Stacks.
\*
\* One profiled OS thread is modelled (every variable of the sampler is
\* __thread).  Code of that thread runs at two levels: the methods and the
\* postponed job at the normal level, and the signal handler above it.  A
\* handler invocation runs to completion before the code it interrupted goes
\* on, so the normal level only moves while no handler invocation is open.
\* In Spec an invocation of the handler is one step (SIGALRM is blocked while
\* it runs); SpecNested takes the handler one atomic access at a time, with
\* further invocations entered between any two accesses.  A method is one
\* step: the handler writes only _in_signal_handler (restored before it
\* returns), _job_registered and the skip counters, a method that stores one
\* of these does so after it has stored _ok_to_sample = false (the handler is
\* then a no-op), and the one store scout_record_sample makes to
\* _job_registered is its last access, so a handler run in the middle of a
\* method leaves the same state as the same handler run just before it.
\*
\* Two builds are modelled.  With glibc or musl on Linux uint_fast16_t is an
\* unsigned type at least as wide as int and every "#ifdef __linux__" part is
\* compiled: each thread has a POSIX timer of its own.  On macOS uint_fast16_t
\* is uint16_t and the only timer is the ITIMER_REAL of the process, armed by
\* install.  Spec is the sampling path (handler, postponed job, trim and
\* drain); SpecControl is the life cycle: install, the timers and fork.
EXTENDS Integers, Sequences, FiniteSets, TLC

\* ---------------------------------------------------------------- bounds
\* Capacity of the trace buffer, "#define MAX_TRACES 2000", scaled down.
MAX_TRACES == 2
\* Deepest stack rb_profile_frames reports in the model (at most BUF_SIZE).
MaxFrames == 4
\* Postponed jobs of this thread that the VM's job buffer can hold.
MaxJobs == 2
\* Signal-handler invocations that can be open at once (nested delivery).
MaxNest == 2
\* Cap of the sum of the four uint32 skip counters.
MaxSkip == 1

\* ------------------------------------------------------------- constants
\* Values an atomic_uint16_t holds: stores truncate to 16 bits.
U16Modulus == 65536
\* uint_fast16_t is uint16_t on some C libraries and an unsigned type at
\* least as wide as int on others (unsigned long with glibc on x86-64).  The
\* model keeps 24 bits of the wide type: enough for every 16-bit index, and a
\* difference that wraps lands far above every index.
UFastModulus == 16777216

VARIABLES
  wide,                       \* the build: uint_fast16_t does not promote to int
  scout_profiling_installed,  \* SIGALRM handler installed
  thread_registered,          \* _thread_registered
  ok_to_sample,               \* _ok_to_sample
  in_signal_handler,          \* _in_signal_handler
  job_registered,             \* _job_registered
  start_frame_index,          \* _start_frame_index
  start_trace_index,          \* _start_trace_index
  cur_traces_num,             \* _cur_traces_num
  skipped_in_gc,              \* _skipped_in_gc
  skipped_in_signal_handler,  \* _skipped_in_signal_handler
  skipped_in_job_registered,  \* _skipped_in_job_registered
  skipped_in_not_running,     \* _skipped_in_not_running
  traces,                     \* _traces[0 .. MAX_TRACES-1]
  postponed_jobs,             \* scout_record_sample jobs registered and not yet run
  handlers,                   \* open handler invocations, outermost first
  crashed,                    \* the process died of undefined behaviour
  last,                       \* the last method or job that ran, and its outcome
  scout_profiling_running,    \* set by ScoutApm::Instruments::Stacks.start
  timer_created,              \* Linux: _timerid names a timer of this process
  timer_armed,                \* the timer that signals this thread is armed
  forking,                    \* between the prepare hook and the end of fork()
  child                       \* "no", or how the fork that made this
                              \* process found sampling: "idle", "sampling"

vars == << wide, scout_profiling_installed, thread_registered, ok_to_sample,
           in_signal_handler, job_registered, start_frame_index,
           start_trace_index, cur_traces_num, skipped_in_gc,
           skipped_in_signal_handler, skipped_in_job_registered,
           skipped_in_not_running, traces, postponed_jobs, handlers, crashed,
           last, scout_profiling_running, timer_created, timer_armed, forking,
           child >>

atomics == << thread_registered, ok_to_sample, in_signal_handler,
              job_registered, start_frame_index, start_trace_index,
              cur_traces_num >>

skips == << skipped_in_gc, skipped_in_signal_handler,
            skipped_in_job_registered, skipped_in_not_running >>

timers == << timer_created, timer_armed >>

lifecycle == << scout_profiling_running, forking, child >>

\* The build has the "#ifdef __linux__" parts (see the head of the module).
Linux == wide

\* --------------------------------------------------------------- inputs
Slots == 0 .. (MAX_TRACES - 1)
\* Arguments (frame_index, trace_index) of update_indexes.  trace_index: the
\* start of the buffer, inside it, past its end, and one that does not fit 16
\* bits.  frame_index: none, and one that lies between the two stack depths
\* below, so that num_frames - start_frame_index is 2, more than 2, 1 and
\* negative.
IndexInputs ==
  {<< 0, 0 >>, << 0, 1 >>, << 0, MAX_TRACES + 1 >>, << 0, U16Modulus + 1 >>,
   << MaxFrames - 1, 0 >>}
\* What the VM tells one run of the handler: rb_during_gc(),
\* rb_thread_current() == _ruby_thread (not asked during GC) and the result
\* of rb_postponed_job_register (asked for outside GC on the owning thread).
HandlerInputs ==
  {<< TRUE, TRUE, 0 >>, << FALSE, FALSE, 0 >>, << FALSE, TRUE, 0 >>,
   << FALSE, TRUE, 1 >>}
\* What the VM tells one run of the job: rb_during_gc(),
\* rb_thread_current() == _ruby_thread and the frame count of
\* rb_profile_frames, in the same order.
RecordInputs ==
  {<< TRUE, TRUE, 2 >>, << FALSE, FALSE, 2 >>, << FALSE, TRUE, 2 >>,
   << FALSE, TRUE, MaxFrames >>}
\* num_tracelines as read from memory no capture has written.
GarbageLines == {0, 1}
\* Every index the drain loop can visit.
Indexes == 0 .. (MAX_TRACES + 1)

\* ------------------------------------------------------- integer widths
ATOMIC_STORE_INT16(x) == x % U16Modulus

\* a - b on two uint_fast16_t values, or on an int and a uint_fast16_t
\* (lines 382, 383, 409, 410): signed when uint_fast16_t promotes to int,
\* modular when it is an unsigned type at least as wide as int.
FastSub(w, a, b) == IF w THEN (a - b) % UFastModulus ELSE a - b

\* Conversion of such a difference to int or long (lines 383, 410).
ToSigned(w, x) == IF w /\ x >= UFastModulus \div 2 THEN x - UFastModulus ELSE x

UninitSlot == [set |-> FALSE, num_tracelines |-> 0]

\* The record kept of the last method or job: its name, the path it took,
\* its arguments (kept for update_indexes), the value it returned and, for a
\* drain, whether the call before it was a drain too.
CallWith(op, path, args, ret) ==
  [op |-> op, path |-> path, args |-> args, ret |-> ret, again |-> FALSE]

Call(op, path, ret) == CallWith(op, path, << >>, ret)

Drain(path, ret) ==
  [Call("profile_frames", path, ret)
     EXCEPT !.again = (last.op = "profile_frames")]

NoCall == Call("none", "none", << >>)

Init ==
  /\ wide \in BOOLEAN
  /\ scout_profiling_installed = FALSE
  /\ thread_registered = FALSE
  /\ ok_to_sample = FALSE
  /\ in_signal_handler = FALSE
  /\ job_registered = FALSE
  /\ start_frame_index = 0
  /\ start_trace_index = 0
  /\ cur_traces_num = 0
  /\ skipped_in_gc = 0
  /\ skipped_in_signal_handler = 0
  /\ skipped_in_job_registered = 0
  /\ skipped_in_not_running = 0
  /\ traces = [i \in Slots |-> UninitSlot]
  /\ postponed_jobs = 0
  /\ handlers = << >>
  /\ crashed = FALSE
  /\ last = NoCall
  /\ scout_profiling_running = FALSE
  /\ timer_created = FALSE
  /\ timer_armed = FALSE
  /\ forking = FALSE
  /\ child = "no"

\* A skip counter can still be incremented.
SkipRoom ==
  skipped_in_gc + skipped_in_signal_handler + skipped_in_job_registered
    + skipped_in_not_running < MaxSkip

\* The normal level runs: the process is alive, no handler is open and the
\* thread is not inside fork().
Normal == ~crashed /\ handlers = << >> /\ ~forking

\* The guard of line 225 taken away: every call installs.
AlreadyInstalledNever(installed) == FALSE

\* Line 225: if (scout_profiling_installed) return Qfalse;
AlreadyInstalled(installed) == installed

\* install: sigaction, and setitimer(ITIMER_REAL) where the build has no
\* per-thread timers (lines 235-240).  It returns Qtrue the first time and
\* Qfalse afterwards.
rb_scout_install_profiling ==
  /\ Normal
  /\ IF AlreadyInstalled(scout_profiling_installed)
       THEN /\ last' = Call("install", "none", << FALSE >>)
            /\ UNCHANGED << scout_profiling_installed, timer_armed >>
       ELSE /\ scout_profiling_installed' = TRUE
            /\ timer_armed' = IF Linux THEN timer_armed ELSE TRUE
            /\ last' = Call("install", "none", << TRUE >>)
  /\ UNCHANGED << wide, lifecycle, timer_created, atomics, skips, traces,
                  postponed_jobs, handlers, crashed >>

\* uninstall returns Qnil and does nothing else (lines 209-213).
rb_scout_uninstall_profiling ==
  /\ Normal
  /\ last' = Call("uninstall", "none", << >>)
  /\ UNCHANGED << wide, lifecycle, timers, scout_profiling_installed, atomics,
                  skips, traces, postponed_jobs, handlers, crashed >>

\* start sets scout_profiling_running (lines 193-203); nothing reads it.
rb_scout_start_profiling ==
  /\ Normal
  /\ scout_profiling_running' = TRUE
  /\ last' = Call("start", "none", << >>)
  /\ UNCHANGED << wide, forking, child, timers, scout_profiling_installed,
                  atomics, skips, traces, postponed_jobs, handlers, crashed >>

\* The thread-locals that registration touches, as one value.
ThreadVars ==
  [thread_registered |-> thread_registered,
   ok_to_sample |-> ok_to_sample,
   in_signal_handler |-> in_signal_handler,
   start_frame_index |-> start_frame_index,
   start_trace_index |-> start_trace_index,
   cur_traces_num |-> cur_traces_num,
   traces |-> traces,
   timer_created |-> timer_created,
   timer_armed |-> timer_armed]

StoreThreadVars(v) ==
  /\ timer_created' = v.timer_created
  /\ timer_armed' = v.timer_armed
  /\ thread_registered' = v.thread_registered
  /\ ok_to_sample' = v.ok_to_sample
  /\ in_signal_handler' = v.in_signal_handler
  /\ start_frame_index' = v.start_frame_index
  /\ start_trace_index' = v.start_trace_index
  /\ cur_traces_num' = v.cur_traces_num
  /\ traces' = v.traces

\* Five stores, then ALLOC_N of a buffer whose contents are not initialized.
\* _job_registered and the four skip counters are not stored.  pthread_atfork
\* adds the two fork hooks (once more at every registration; they are
\* idempotent), and on Linux timer_create makes a new, disarmed timer.
init_thread_vars(v) ==
  [v EXCEPT !.ok_to_sample = FALSE,
            !.in_signal_handler = FALSE,
            !.start_frame_index = ATOMIC_STORE_INT16(0),
            !.start_trace_index = ATOMIC_STORE_INT16(0),
            !.cur_traces_num = ATOMIC_STORE_INT16(0),
            !.traces = [i \in Slots |-> UninitSlot],
            !.timer_created = IF Linux THEN TRUE ELSE @,
            !.timer_armed = IF Linux THEN FALSE ELSE @]

\* scout_start_thread_timer (lines 440-470): with "#ifdef __linux__" it arms
\* the timer _timerid names; timer_settime fails, and a line is printed, when
\* the process has no such timer.  Without it the body is empty.
scout_start_thread_timer(v) ==
  IF Linux /\ v.thread_registered /\ v.timer_created
    THEN [v EXCEPT !.timer_armed = TRUE]
    ELSE v

\* scout_stop_thread_timer (lines 472-487), in the same way.
scout_stop_thread_timer(v) ==
  IF Linux /\ v.thread_registered /\ v.timer_created
    THEN [v EXCEPT !.timer_armed = FALSE]
    ELSE v

scout_add_profiled_thread(v) ==
  IF v.thread_registered
    THEN v
    ELSE [init_thread_vars(v) EXCEPT !.thread_registered = TRUE]

rb_scout_add_profiled_thread ==
  /\ Normal
  /\ StoreThreadVars(scout_add_profiled_thread(ThreadVars))
  /\ last' = Call("add_profiled_thread",
                  IF thread_registered THEN "registered" ELSE "fresh", << >>)
  /\ UNCHANGED << wide, lifecycle, scout_profiling_installed, job_registered,
                  skips, postponed_jobs, handlers, crashed >>

\* remove_profiled_thread.  xfree(&_gc_hook) and xfree(&_traces) free the
\* addresses of two thread-local variables, not heap blocks: undefined
\* behaviour, after which the process either dies (the allocator aborts) or
\* goes on.  The buffer _traces points to is not released by either call.
\* On Linux timer_delete then ends the thread's timer.
rb_scout_remove_profiled_thread ==
  /\ Normal
  /\ IF ~thread_registered
       THEN /\ last' = Call("remove_profiled_thread", "not_registered", << >>)
            /\ UNCHANGED << atomics, crashed, timers >>
       ELSE /\ ok_to_sample' = FALSE
            /\ \E dies \in BOOLEAN :
                 /\ crashed' = dies
                 /\ thread_registered' = dies
                 /\ timer_created' = IF Linux /\ ~dies THEN FALSE
                                                      ELSE timer_created
                 /\ timer_armed' = IF Linux /\ ~dies THEN FALSE
                                                    ELSE timer_armed
                 /\ last' = Call("remove_profiled_thread",
                                 IF dies THEN "crashed" ELSE "removed", << >>)
            /\ UNCHANGED << in_signal_handler, job_registered,
                            start_frame_index, start_trace_index,
                            cur_traces_num >>
  /\ UNCHANGED << wide, lifecycle, scout_profiling_installed, skips, traces,
                  postponed_jobs, handlers >>

\* start_sampling without its call of scout_add_profiled_thread.
EnableSamplingUnregistered(v) == [v EXCEPT !.ok_to_sample = TRUE]

\* Lines 493-494: scout_add_profiled_thread, then the store of true to
\* _ok_to_sample.
EnableSampling(v) ==
  [scout_add_profiled_thread(v) EXCEPT !.ok_to_sample = TRUE]

\* start_sampling; its call of scout_start_thread_timer is under
\* "#ifdef __linux__", where alone the callee does anything.
rb_scout_start_sampling ==
  /\ Normal
  /\ StoreThreadVars(scout_start_thread_timer(EnableSampling(ThreadVars)))
  /\ last' = Call("start_sampling", "none", << >>)
  /\ UNCHANGED << wide, lifecycle, scout_profiling_installed, job_registered,
                  skips, postponed_jobs, handlers, crashed >>

\* The reset without the four stores to the skip counters.
ResetStoresKeepsCounters ==
  /\ job_registered' = FALSE
  /\ in_signal_handler' = FALSE
  /\ start_trace_index' = ATOMIC_STORE_INT16(0)
  /\ start_frame_index' = ATOMIC_STORE_INT16(0)
  /\ cur_traces_num' = ATOMIC_STORE_INT16(0)
  /\ UNCHANGED skips

\* The stores of rb_scout_stop_sampling when TYPE(reset) == T_TRUE.
ResetStores ==
  /\ job_registered' = FALSE
  /\ in_signal_handler' = FALSE
  /\ start_trace_index' = ATOMIC_STORE_INT16(0)
  /\ start_frame_index' = ATOMIC_STORE_INT16(0)
  /\ cur_traces_num' = ATOMIC_STORE_INT16(0)
  /\ skipped_in_gc' = 0
  /\ skipped_in_signal_handler' = 0
  /\ skipped_in_job_registered' = 0
  /\ skipped_in_not_running' = 0

\* Every argument taken for true.
IsResetAlways(reset) == TRUE

\* Line 514: TYPE(reset) == T_TRUE.
IsReset(reset) == reset

\* stop_sampling: the timer is disarmed when sampling was enabled (lines
\* 505-509), then _ok_to_sample is cleared and, on reset, the rest.
rb_scout_stop_sampling(reset) ==
  /\ Normal
  /\ timer_armed' = IF ok_to_sample = TRUE
                      THEN scout_stop_thread_timer(ThreadVars).timer_armed
                      ELSE timer_armed
  /\ ok_to_sample' = FALSE
  /\ IF IsReset(reset)
       THEN ResetStores
       ELSE UNCHANGED << job_registered, in_signal_handler, start_trace_index,
                         start_frame_index, cur_traces_num, skips >>
  /\ last' = Call("stop_sampling", IF reset THEN "reset" ELSE "keep", << >>)
  /\ UNCHANGED << wide, lifecycle, timer_created, scout_profiling_installed,
                  thread_registered, traces, postponed_jobs, handlers,
                  crashed >>

\* The prepare hook of pthread_atfork, run by the thread that calls fork()
\* (lines 264-271).  The hooks exist once a thread has registered; before
\* that fork() runs no hook and _ok_to_sample is false, which is the same.
scout_parent_atfork_prepare ==
  /\ Normal
  /\ forking' = TRUE
  /\ timer_armed' = IF ok_to_sample = TRUE
                      THEN scout_stop_thread_timer(ThreadVars).timer_armed
                      ELSE timer_armed
  /\ last' = Call("fork", "prepare", << >>)
  /\ UNCHANGED << wide, scout_profiling_running, child, timer_created,
                  scout_profiling_installed, atomics, skips, traces,
                  postponed_jobs, handlers, crashed >>

\* The parent hook, run in the parent when fork() is over (lines 273-279).
scout_parent_atfork_finish ==
  /\ ~crashed
  /\ forking
  /\ forking' = FALSE
  /\ timer_armed' = IF ok_to_sample = TRUE
                      THEN scout_start_thread_timer(ThreadVars).timer_armed
                      ELSE timer_armed
  /\ last' = Call("fork", "parent", << >>)
  /\ UNCHANGED << wide, scout_profiling_running, child, timer_created,
                  scout_profiling_installed, atomics, skips, traces,
                  postponed_jobs, handlers, crashed >>

\* fork() is over in the child: pthread_atfork was given no child hook (line
\* 299).  The child has a copy of the memory of the forking thread, and
\* neither the POSIX timers nor the interval timers of its parent.
ForkedChild ==
  /\ ~crashed
  /\ forking
  /\ forking' = FALSE
  /\ child' = IF ok_to_sample = TRUE THEN "sampling" ELSE "idle"
  /\ timer_created' = FALSE
  /\ timer_armed' = FALSE
  /\ last' = Call("fork", "child", << >>)
  /\ UNCHANGED << wide, scout_profiling_running, scout_profiling_installed,
                  atomics, skips, traces, postponed_jobs, handlers, crashed >>

rb_scout_update_indexes(frame_index, trace_index) ==
  /\ Normal
  /\ start_trace_index' = ATOMIC_STORE_INT16(trace_index)
  /\ start_frame_index' = ATOMIC_STORE_INT16(frame_index)
  /\ last' = CallWith("update_indexes", "none",
                      << frame_index, trace_index >>, << >>)
  /\ UNCHANGED << wide, lifecycle, timers, scout_profiling_installed,
                  thread_registered,
                  ok_to_sample, in_signal_handler, job_registered,
                  cur_traces_num, skips, traces, postponed_jobs, handlers,
                  crashed >>

rb_scout_current_trace_index == cur_traces_num

\* ------------------------------------------------------- signal handler
\* Positions of one invocation of scout_profile_broadcast_signal_handler,
\* named by the line of the access it is about to make.
HandlerPcs == {"h326", "h328", "h334", "h336", "h351"}

\* Between the store of true (line 334) and the store of false (line 351).
InGuardedRegion(pc) == pc \in {"h336", "h351"}

\* The variables the handler reads or writes, as one value.
HandlerVars ==
  [ok_to_sample |-> ok_to_sample,
   in_signal_handler |-> in_signal_handler,
   job_registered |-> job_registered,
   postponed_jobs |-> postponed_jobs,
   skipped_in_gc |-> skipped_in_gc,
   skipped_in_signal_handler |-> skipped_in_signal_handler,
   skipped_in_job_registered |-> skipped_in_job_registered,
   skipped_in_not_running |-> skipped_in_not_running]

StoreHandlerVars(h) ==
  /\ ok_to_sample' = h.ok_to_sample
  /\ in_signal_handler' = h.in_signal_handler
  /\ job_registered' = h.job_registered
  /\ postponed_jobs' = h.postponed_jobs
  /\ skipped_in_gc' = h.skipped_in_gc
  /\ skipped_in_signal_handler' = h.skipped_in_signal_handler
  /\ skipped_in_job_registered' = h.skipped_in_job_registered
  /\ skipped_in_not_running' = h.skipped_in_not_running

\* A skip counter of h can still be incremented.
SkipRoomIn(h) ==
  h.skipped_in_gc + h.skipped_in_signal_handler + h.skipped_in_job_registered
    + h.skipped_in_not_running < MaxSkip

\* One access of the handler: where it goes next ("return" when it returns),
\* the variables after it, and whether the caps of the model allow it.
Access(next, h, within) == [next |-> next, vars |-> h, within |-> within]

\* The reentrancy check left out.
ReenteredNever(in_handler) == FALSE

\* Line 328: ATOMIC_LOAD(&_in_signal_handler) == true.
Reentered(in_handler) == in_handler

\* Line 326: if (ATOMIC_LOAD(&_ok_to_sample) == false) return;
Handler326(h) ==
  IF h.ok_to_sample = FALSE THEN Access("return", h, TRUE)
                            ELSE Access("h328", h, TRUE)

\* Lines 328-331: the reentrancy check.
Handler328(h) ==
  IF Reentered(h.in_signal_handler)
    THEN Access("return",
                [h EXCEPT !.skipped_in_signal_handler = @ + 1], SkipRoomIn(h))
    ELSE Access("h334", h, TRUE)

\* Line 334: ATOMIC_STORE_BOOL(&_in_signal_handler, true);
Handler334(h) == Access("h336", [h EXCEPT !.in_signal_handler = TRUE], TRUE)

\* Lines 336-349 with the test of _job_registered put before the tests of
\* the collector and of the running thread.
Handler336JobFirst(h, during_gc, running, register_result) ==
  IF h.job_registered = FALSE /\ register_result = 1
    THEN Access("h351",
                [h EXCEPT !.postponed_jobs = @ + 1, !.job_registered = TRUE],
                h.postponed_jobs < MaxJobs)
    ELSE Access("h351", h, TRUE)

\* Lines 336-349.  during_gc is rb_during_gc(), running is
\* rb_thread_current() == _ruby_thread, register_result is what
\* rb_postponed_job_register returns: 1 when the job was queued, 0 when the
\* VM's job buffer (shared with every other user of it) took no more.
Handler336(h, during_gc, running, register_result) ==
  IF during_gc
    THEN Access("h351", [h EXCEPT !.skipped_in_gc = @ + 1], SkipRoomIn(h))
  ELSE IF ~running
    THEN Access("h351", [h EXCEPT !.skipped_in_not_running = @ + 1],
                SkipRoomIn(h))
  ELSE IF h.job_registered = FALSE
    THEN IF register_result = 1 \/ register_result = 2
           THEN Access("h351",
                       [h EXCEPT !.postponed_jobs = @ + 1,
                                 !.job_registered = TRUE],
                       h.postponed_jobs < MaxJobs)
           ELSE Access("h351",
                       [h EXCEPT !.skipped_in_job_registered = @ + 1],
                       SkipRoomIn(h))
  ELSE Access("h351", h, TRUE)

\* Line 351: ATOMIC_STORE_BOOL(&_in_signal_handler, false);
Handler351(h) == Access("return", [h EXCEPT !.in_signal_handler = FALSE], TRUE)

\* The access the handler makes at position pc.
HandlerAt(pc, h, during_gc, running, register_result) ==
  CASE pc = "h326" -> Handler326(h)
    [] pc = "h328" -> Handler328(h)
    [] pc = "h334" -> Handler334(h)
    [] pc = "h336" -> Handler336(h, during_gc, running, register_result)
    [] pc = "h351" -> Handler351(h)

\* One invocation from position pc to its return, with nothing in between:
\* the access a at pc, then the rest of the run from where a leaves off.  (a
\* and rest are bound as elements of one-element sets, so that each is
\* evaluated once.)
RECURSIVE HandlerRun(_, _, _, _, _)
HandlerRun(pc, h, during_gc, running, register_result) ==
  IF pc = "return" THEN Access("return", h, TRUE)
  ELSE CHOOSE run \in
         {Access("return", rest.vars, a.within /\ rest.within) :
            << a, rest >> \in
              {<< b, HandlerRun(b.next, b.vars, during_gc, running,
                               register_result) >> :
                 b \in {HandlerAt(pc, h, during_gc, running,
                                  register_result)}}} : TRUE

\* SIGALRM is delivered to the thread (by its timer, by the process-wide
\* itimer of the non-Linux build, or raised before the timer was disarmed)
\* and the handler runs to its return.  The handler has to be installed (the
\* default action of SIGALRM ends the process).  It is installed with an empty
\* sa_mask and without SA_NODEFER (lines 230-233), so SIGALRM stays blocked
\* while it runs and nothing else of the thread runs before it returns.
scout_profile_broadcast_signal_handler(during_gc, running, register_result) ==
  LET run == HandlerRun("h326", HandlerVars, during_gc, running,
                        register_result)
  IN
  /\ Normal
  /\ scout_profiling_installed
  /\ run.within
  /\ StoreHandlerVars(run.vars)
  /\ UNCHANGED << wide, lifecycle, timers, scout_profiling_installed,
                  thread_registered,
                  start_frame_index, start_trace_index, cur_traces_num,
                  traces, handlers, crashed, last >>

\* The handler entered while an invocation may be open: the delivery that
\* the _in_signal_handler guard is written for (the handler called for
\* another signal number, or installed with SA_NODEFER).
NestedSignalDelivered ==
  /\ ~crashed
  /\ scout_profiling_installed
  /\ Len(handlers) < MaxNest
  /\ handlers' = Append(handlers, "h326")
  /\ UNCHANGED << wide, lifecycle, timers, scout_profiling_installed, atomics,
                  skips, traces, postponed_jobs, crashed, last >>

\* The innermost open invocation makes its next access.
NestedHandlerAccess(during_gc, running, register_result) ==
  LET top == handlers[Len(handlers)]
      a == HandlerAt(top, HandlerVars, during_gc, running, register_result)
  IN
  /\ ~crashed
  /\ handlers # << >>
  /\ a.within
  /\ StoreHandlerVars(a.vars)
  /\ handlers' = IF a.next = "return"
                   THEN SubSeq(handlers, 1, Len(handlers) - 1)
                   ELSE [handlers EXCEPT ![Len(handlers)] = a.next]
  /\ UNCHANGED << wide, lifecycle, timers, scout_profiling_installed,
                  thread_registered,
                  start_frame_index, start_trace_index, cur_traces_num,
                  traces, crashed, last >>

\* ---------------------------------------------------------- postponed job
\* Line 382: num_frames - start_frame_index > 2, int against uint_fast16_t.
KeepsSample(w, num_frames, sfi) == FastSub(w, num_frames, sfi) > 2

\* The two bottom frames not taken off.
NumTracelinesNoOffset(w, num_frames, sfi) ==
  ToSigned(w, FastSub(w, num_frames, sfi))

\* Line 383: num_frames - start_frame_index - 2, stored in an int.
NumTracelines(w, num_frames, sfi) ==
  ToSigned(w, FastSub(w, FastSub(w, num_frames, sfi), 2))

\* The bound of line 380 off by one.
HasRoomOffByOne(cur) == cur <= MAX_TRACES

\* Line 380: the buffer has a free slot.
HasRoom(cur) == cur < MAX_TRACES

\* scout_record_sample without its check of _ok_to_sample at line 367.
RecordPathUnchecked(during_gc, running, num_frames) ==
  IF during_gc THEN "gc"
  ELSE IF ~running THEN "not_running"
  ELSE IF ~(cur_traces_num < MAX_TRACES) THEN "full"
  ELSE IF ~(FastSub(wide, num_frames, start_frame_index) > 2) THEN "discarded"
  ELSE "stored"

\* The path one run of scout_record_sample takes (lines 367-386).
RecordPath(during_gc, running, num_frames) ==
  IF ok_to_sample = FALSE THEN "disabled"
  ELSE IF during_gc THEN "gc"
  ELSE IF ~running THEN "not_running"
  ELSE IF ~HasRoom(cur_traces_num) THEN "full"
  ELSE IF ~KeepsSample(wide, num_frames, start_frame_index) THEN "discarded"
  ELSE "stored"

\* The paths of scout_record_sample that reach line 387, the store of false
\* to _job_registered; the three early returns do not.
ClearsJobRegistered(path) == path \in {"full", "discarded", "stored"}

\* scout_record_sample, run by the VM from its postponed-job buffer at a safe
\* point of the thread.  The model keeps num_tracelines of each slot; what
\* rb_profile_frames writes to frames_buf and lines_buf is not kept.
scout_record_sample(during_gc, running, num_frames) ==
  LET path == RecordPath(during_gc, running, num_frames)
      cur == cur_traces_num
  IN
  /\ Normal
  /\ postponed_jobs > 0
  /\ postponed_jobs' = postponed_jobs - 1
  /\ skipped_in_gc' = IF path = "gc" THEN skipped_in_gc + 1 ELSE skipped_in_gc
  /\ path = "gc" => SkipRoom
  /\ skipped_in_not_running' =
       IF path = "not_running" THEN skipped_in_not_running + 1
                               ELSE skipped_in_not_running
  /\ path = "not_running" => SkipRoom
  /\ traces' =
       IF path = "stored"
         THEN [traces EXCEPT ![cur] =
                 [set |-> TRUE,
                  num_tracelines |->
                    NumTracelines(wide, num_frames, start_frame_index)]]
         ELSE traces
  /\ cur_traces_num' =
       IF path = "stored" THEN ATOMIC_STORE_INT16(cur + 1) ELSE cur
  /\ job_registered' =
       IF ClearsJobRegistered(path) THEN FALSE ELSE job_registered
  /\ last' = Call("record_sample", path, << >>)
  /\ UNCHANGED << wide, lifecycle, timers, scout_profiling_installed,
                  thread_registered,
                  ok_to_sample, in_signal_handler, start_frame_index,
                  start_trace_index, skipped_in_signal_handler,
                  skipped_in_job_registered, handlers, crashed >>

\* ------------------------------------------------------------------ drain
\* _traces[i].num_tracelines as the loop of rb_scout_profile_frames reads it:
\* what a capture stored there, or whatever the memory holds when no capture
\* has written the slot or i lies past the end of the buffer.
ReadTracelines(i, garbage) ==
  IF i \in Slots /\ traces[i].set THEN traces[i].num_tracelines ELSE garbage[i]

ReadsGarbage(from, to) ==
  \E i \in Indexes : from <= i /\ i < to /\ ~(i \in Slots /\ traces[i].set)

\* Lines 411-426: the traces pushed for slots from .. to-1, each with the
\* index of its slot and its number of lines.
RECURSIVE CollectTraces(_, _, _)
CollectTraces(from, to, garbage) ==
  IF from >= to THEN << >>
  ELSE (IF ReadTracelines(from, garbage) > 0
          THEN << [index |-> from,
                   num_tracelines |-> ReadTracelines(from, garbage)] >>
          ELSE << >>)
       \o CollectTraces(from + 1, to, garbage)

\* Line 409: cur_traces_num - start_trace_index > 0 on two uint_fast16_t.
HasTraces(w, cur, start) == FastSub(w, cur, start) > 0

\* Line 410: rb_ary_new2 takes a long and raises ArgumentError when it is
\* negative.
AryNew2Raises(w, cur, start) == ToSigned(w, FastSub(w, cur, start)) < 0

\* Line 430: the value stored to _cur_traces_num when the drain returns.
DrainedCount(start) == ATOMIC_STORE_INT16(start)

\* The check of line 400 taken away.
NotProfiledNever(registered) == FALSE

\* Line 400: ATOMIC_LOAD(&_thread_registered) == false.
NotProfiled(registered) == registered = FALSE

rb_scout_profile_frames ==
  LET cur == cur_traces_num
      start == start_trace_index
  IN
  /\ Normal
  /\ IF NotProfiled(thread_registered)
       THEN /\ cur_traces_num' = ATOMIC_STORE_INT16(0)
            /\ last' = Drain("not_registered", << >>)
            /\ UNCHANGED crashed
       ELSE IF ~HasTraces(wide, cur, start)
         THEN /\ cur_traces_num' = DrainedCount(start)
              /\ last' = Drain("empty", << >>)
              /\ UNCHANGED crashed
         ELSE IF AryNew2Raises(wide, cur, start)
           THEN /\ last' = Drain("raised", << >>)
                /\ UNCHANGED << cur_traces_num, crashed >>
           ELSE IF ~ReadsGarbage(start, cur)
             THEN /\ cur_traces_num' = DrainedCount(start)
                  /\ last' = Drain("traces",
                                  CollectTraces(start, cur, << >>))
                  /\ UNCHANGED crashed
             ELSE \* a read of memory no capture has written
                  \/ /\ crashed' = TRUE
                     /\ last' = Drain("crashed", << >>)
                     /\ UNCHANGED cur_traces_num
                  \/ \E garbage \in [start .. (cur - 1) -> GarbageLines] :
                       /\ cur_traces_num' = DrainedCount(start)
                       /\ last' = Drain("traces",
                                       CollectTraces(start, cur, garbage))
                       /\ UNCHANGED crashed
  /\ UNCHANGED << wide, lifecycle, timers, scout_profiling_installed,
                  thread_registered,
                  ok_to_sample, in_signal_handler, job_registered,
                  start_frame_index, start_trace_index, skips, traces,
                  postponed_jobs, handlers >>

Next ==
  \/ rb_scout_install_profiling
  \/ rb_scout_add_profiled_thread
  \/ rb_scout_remove_profiled_thread
  \/ rb_scout_start_sampling
  \/ \E reset \in BOOLEAN : rb_scout_stop_sampling(reset)
  \/ \E i \in IndexInputs : rb_scout_update_indexes(i[1], i[2])
  \/ rb_scout_profile_frames
  \/ \E i \in RecordInputs : scout_record_sample(i[1], i[2], i[3])
  \/ \E i \in HandlerInputs :
       scout_profile_broadcast_signal_handler(i[1], i[2], i[3])

Spec == Init /\ [][Next]_vars

\* The handler entered access by access and under nested delivery, with
\* every method that reads or writes a variable the handler reads or writes.
NextNested ==
  \/ rb_scout_install_profiling
  \/ rb_scout_add_profiled_thread
  \/ rb_scout_remove_profiled_thread
  \/ rb_scout_start_sampling
  \/ \E reset \in BOOLEAN : rb_scout_stop_sampling(reset)
  \/ \E i \in RecordInputs : scout_record_sample(i[1], i[2], i[3])
  \/ NestedSignalDelivered
  \/ \E i \in HandlerInputs : NestedHandlerAccess(i[1], i[2], i[3])

SpecNested == Init /\ [][NextNested]_vars

\* The life cycle: install, registration, the timers and fork, with the
\* handler and the postponed job that the flags switch on and off.  After
\* ForkedChild the behaviour is that of the child process.
NextControl ==
  \/ rb_scout_install_profiling
  \/ rb_scout_uninstall_profiling
  \/ rb_scout_start_profiling
  \/ rb_scout_add_profiled_thread
  \/ rb_scout_remove_profiled_thread
  \/ rb_scout_start_sampling
  \/ \E reset \in BOOLEAN : rb_scout_stop_sampling(reset)
  \/ scout_parent_atfork_prepare
  \/ scout_parent_atfork_finish
  \/ ForkedChild
  \/ \E i \in RecordInputs : scout_record_sample(i[1], i[2], i[3])
  \/ \E i \in HandlerInputs :
       scout_profile_broadcast_signal_handler(i[1], i[2], i[3])

SpecControl == Init /\ [][NextControl]_vars

\* A run of the handler as the timer delivers it when the VM is not
\* collecting, the owning thread runs and the VM's job buffer has room.
TimerFires == scout_profile_broadcast_signal_handler(FALSE, TRUE, 1)

\* A run of the queued job at a safe point of the owning thread, outside GC,
\* on a stack of MaxFrames frames.
JobRuns == scout_record_sample(FALSE, TRUE, MaxFrames)

\* Sampling over time: install, start and stop of sampling, the handler and
\* the job under everything the VM can report.
NextLive ==
  \/ rb_scout_install_profiling
  \/ rb_scout_start_sampling
  \/ \E reset \in BOOLEAN : rb_scout_stop_sampling(reset)
  \/ \E i \in RecordInputs : scout_record_sample(i[1], i[2], i[3])
  \/ \E i \in HandlerInputs :
       scout_profile_broadcast_signal_handler(i[1], i[2], i[3])

\* The timer is periodic and the VM runs its postponed jobs at the next safe
\* point: a run of the handler, and of the job, under good conditions that is
\* possible again and again is taken.
SpecLive ==
  Init /\ [][NextLive]_vars /\ SF_vars(TimerFires) /\ SF_vars(JobRuns)

\* ------------------------------------------------------------------ claims
RecordSampleStep ==
  \E i \in RecordInputs : scout_record_sample(i[1], i[2], i[3])

HandlerStep ==
  \E i \in HandlerInputs :
    scout_profile_broadcast_signal_handler(i[1], i[2], i[3])

\* The traces a drain would return, by slot: below _cur_traces_num, written
\* by a capture, with a positive number of lines.
VisibleTraces ==
  {i \in Slots : /\ i < cur_traces_num
                 /\ traces[i].set
                 /\ traces[i].num_tracelines > 0}

AllSkipsZero ==
  /\ skipped_in_gc = 0
  /\ skipped_in_signal_handler = 0
  /\ skipped_in_job_registered = 0
  /\ skipped_in_not_running = 0

\* C1: at most one deferred capture is registered and not yet run, in every
\* reachable state.
C1_AtMostOneOutstanding == postponed_jobs <= 1

\* C2: every run of the deferred capture leaves _job_registered
\* (capture_pending) false when it returns, whichever path it takes.
C2_CaptureClearsPending ==
  [][RecordSampleStep => job_registered' = FALSE]_vars

\* C3: trace_count (_cur_traces_num) never exceeds MAX_TRACES.
C3_CountWithinCapacity == cur_traces_num <= MAX_TRACES

\* C4: start_trace_index never exceeds trace_count.
C4_TrimPointWithinCount == start_trace_index <= cur_traces_num

\* C5: at most one handler invocation is between its store of true and its
\* store of false to _in_signal_handler, under nested delivery at any point
\* of an open invocation.
C5_OneInGuardedRegion ==
  Cardinality({i \in 1 .. Len(handlers) : InGuardedRegion(handlers[i])}) <= 1

\* C5 witness: a nested invocation is inside the guarded region while the
\* outer one has loaded _in_signal_handler and not yet stored true.
C5_Witness ==
  /\ Len(handlers) = 2
  /\ handlers[1] = "h334"
  /\ InGuardedRegion(handlers[2])

\* C6: while _ok_to_sample is false, a step that changes trace_count, a
\* buffered trace, a trim index or a skip counter is neither a run of the
\* handler nor a run of the deferred capture.
C6_DisabledIsNoOp ==
  [][(/\ ok_to_sample = FALSE
      /\ ~UNCHANGED << cur_traces_num, traces, start_frame_index,
                       start_trace_index, skips >>)
       => ~(HandlerStep \/ RecordSampleStep)]_vars

\* C6 witness: a capture that was queued has run with sampling disabled, on a
\* thread whose buffer holds a trace.
C6_Witness ==
  /\ last.op = "record_sample"
  /\ last.path = "disabled"
  /\ ok_to_sample = FALSE
  /\ cur_traces_num > 0

\* C7: register_thread on a thread that is not registered leaves every
\* atomic zeroed, _job_registered and the four skip counters included.
C7_RegisterZeroesAll ==
  (last.op = "add_profiled_thread" /\ last.path = "fresh")
    => /\ ok_to_sample = FALSE
       /\ in_signal_handler = FALSE
       /\ job_registered = FALSE
       /\ start_frame_index = 0
       /\ start_trace_index = 0
       /\ cur_traces_num = 0
       /\ AllSkipsZero

\* C8, on a registered thread and for a trace_index t that fits 16 bits:
\* update_indexes(f, t) followed by drain_frames returns no trace of a slot
\* below t and leaves current_trace_index() = t.
C8_DrainAfterUpdate ==
  [][(/\ last.op = "update_indexes"
      /\ last.args[2] < U16Modulus
      /\ thread_registered
      /\ rb_scout_profile_frames)
       => /\ \A k \in 1 .. Len(last'.ret) : last'.ret[k].index >= last.args[2]
          /\ rb_scout_current_trace_index' = last.args[2]]_vars

\* C9: a drain that directly follows a drain returns an empty sequence and
\* leaves trace_count unchanged.
C9_SecondDrainEmpty ==
  [][(last.op = "profile_frames" /\ rb_scout_profile_frames)
       => /\ last'.path \in {"empty", "not_registered"}
          /\ last'.ret = << >>
          /\ cur_traces_num' = cur_traces_num]_vars

\* C10: a deferred capture whose frame count minus start_frame_index is at
\* most 2, negative differences included, leaves trace_count unchanged and
\* makes no trace visible to a drain.
C10_ShortSampleDiscarded ==
  [][\A i \in RecordInputs :
       (i[3] - start_frame_index <= 2 /\ scout_record_sample(i[1], i[2], i[3]))
         => /\ cur_traces_num' = cur_traces_num
            /\ VisibleTraces' = VisibleTraces]_vars

AllSlotsHold(n) ==
  \A j \in Slots : traces[j] = [set |-> TRUE, num_tracelines |-> n]

\* C11: on a registered thread with sampling enabled, outside GC, on the
\* owning thread and with trace_count < MAX_TRACES, a deferred capture of k
\* frames with k - start_frame_index > 2 stores num_tracelines =
\* k - start_frame_index - 2 in slot trace_count, touches no other slot and
\* increments trace_count by exactly 1.
C11_CaptureStoresTrace ==
  [][\A i \in RecordInputs :
       (/\ thread_registered
        /\ ok_to_sample = TRUE
        /\ ~i[1]
        /\ i[2]
        /\ cur_traces_num < MAX_TRACES
        /\ i[3] - start_frame_index > 2
        /\ scout_record_sample(i[1], i[2], i[3]))
         => /\ traces'[cur_traces_num] =
                 [set |-> TRUE,
                  num_tracelines |-> i[3] - start_frame_index - 2]
            /\ \A j \in Slots \ {cur_traces_num} : traces'[j] = traces[j]
            /\ cur_traces_num' = cur_traces_num + 1]_vars

\* C11 witness: the scenario of the claim at the size of the model, MAX_TRACES
\* captures of a MaxFrames-frame stack with start_frame_index = 0:
\* current_trace_index() = MAX_TRACES and MaxFrames - 2 lines in each trace.
C11_Witness ==
  /\ last.op = "record_sample"
  /\ last.path = "stored"
  /\ start_frame_index = 0
  /\ rb_scout_current_trace_index = MAX_TRACES
  /\ AllSlotsHold(MaxFrames - 2)

\* C12 as stated: a deferred capture attempted when trace_count = MAX_TRACES
\* leaves trace_count at MAX_TRACES, overwrites no buffered trace and
\* increments none of the four skip counters.
C12_FullBufferSilent ==
  [][\A i \in RecordInputs :
       (cur_traces_num = MAX_TRACES /\ scout_record_sample(i[1], i[2], i[3]))
         => /\ cur_traces_num' = MAX_TRACES
            /\ traces' = traces
            /\ UNCHANGED skips]_vars

\* C12 amended: such a capture leaves trace_count at MAX_TRACES and overwrites
\* no buffered trace; it increments none of the four skip counters when no GC
\* is in progress and the owning thread is running (the tests of GC and of
\* the running thread come before the test of the buffer, and count).
C12_FullBufferDrop ==
  [][\A i \in RecordInputs :
       (cur_traces_num = MAX_TRACES /\ scout_record_sample(i[1], i[2], i[3]))
         => /\ cur_traces_num' = MAX_TRACES
            /\ traces' = traces
            /\ (~i[1] /\ i[2]) => UNCHANGED skips]_vars

\* C12 witness: a capture has found the buffer full of stored traces, with
\* sampling enabled, and no counter has moved.
C12_Witness ==
  /\ last.op = "record_sample"
  /\ last.path = "full"
  /\ ok_to_sample = TRUE
  /\ cur_traces_num = MAX_TRACES
  /\ AllSlotsHold(MaxFrames - 2)
  /\ AllSkipsZero

\* Sampling is disabled, current_trace_index() is 0 and the four skip
\* counters are 0.
Quiescent ==
  /\ ok_to_sample = FALSE
  /\ rb_scout_current_trace_index = 0
  /\ AllSkipsZero

\* C13: stop_sampling(reset=true) leaves sampling disabled with
\* current_trace_index() = 0 and the four skip counters 0, from any state,
\* and every run of the handler and of a queued deferred capture after it
\* (with no start_sampling in between) keeps them so.
C13_ResetStaysZero ==
  [][Quiescent' \/ ~(\/ rb_scout_stop_sampling(TRUE)
                     \/ Quiescent /\ (HandlerStep \/ RecordSampleStep))]_vars

\* C13 witness: the reset has run on a thread that holds a stored trace and
\* has a deferred capture queued.
C13_Witness ==
  /\ last.op = "stop_sampling"
  /\ last.path = "reset"
  /\ postponed_jobs > 0
  /\ traces[0].set
  /\ Quiescent

\* What the fork hooks must leave alone when sampling is not active.
SamplerState ==
  << atomics, skips, traces, postponed_jobs, timer_created,
     scout_profiling_installed >>

\* C14, for the build with per-thread timers: when _ok_to_sample is true the
\* prepare hook leaves the thread's timer disarmed and the parent hook leaves
\* it armed; when it is false both hooks leave the timer disarmed and change
\* no sampler state.
C14_ForkHooksToggleTimer ==
  [][Linux =>
       /\ scout_parent_atfork_prepare
            => IF ok_to_sample = TRUE
                 THEN ~timer_armed'
                 ELSE ~timer_armed' /\ UNCHANGED SamplerState
       /\ scout_parent_atfork_finish
            => IF ok_to_sample = TRUE
                 THEN timer_armed'
                 ELSE ~timer_armed' /\ UNCHANGED SamplerState]_vars

\* C15: the child of a fork taken with _ok_to_sample true has no armed timer
\* when fork() returns, and in such a child, with the handler installed, a
\* start_sampling that directly follows register_thread leaves a timer armed.
C15_ChildRearms ==
  [][/\ (ok_to_sample = TRUE /\ ForkedChild) => ~timer_armed'
     /\ (/\ child = "sampling"
         /\ scout_profiling_installed
         /\ last.op = "add_profiled_thread"
         /\ rb_scout_start_sampling) => timer_armed']_vars

\* Everything but the record of the last call.
AllButLast ==
  << wide, scout_profiling_installed, atomics, skips, traces, postponed_jobs,
     handlers, crashed, timers, lifecycle >>

\* C16: the first install sets scout_profiling_installed and returns true;
\* every later install returns false and changes nothing; and no step of any
\* operation sets scout_profiling_installed back to false.
C16_InstallOneWay ==
  [][/\ rb_scout_install_profiling
          => IF scout_profiling_installed
               THEN last'.ret = << FALSE >> /\ UNCHANGED AllButLast
               ELSE scout_profiling_installed' /\ last'.ret = << TRUE >>
     /\ scout_profiling_installed => scout_profiling_installed']_vars

\* C16 witness: install has been refused in a process that had installed,
\* called the global start and registered and unregistered a thread.
C16_Witness ==
  /\ last.op = "install"
  /\ last.ret = << FALSE >>
  /\ scout_profiling_installed
  /\ scout_profiling_running
  /\ ~thread_registered
  /\ traces[0].set

\* C17: drain_frames on a thread that is not registered returns an empty
\* result and stores 0 to trace_count; it takes none of the paths that read
\* the trace buffer, does not raise and does not end the process.
C17_UnregisteredDrainEmpty ==
  [][(thread_registered = FALSE /\ rb_scout_profile_frames)
       => /\ last'.path = "not_registered"
          /\ last'.ret = << >>
          /\ rb_scout_current_trace_index' = 0
          /\ traces' = traces
          /\ ~crashed']_vars

\* C17 witness: the drain of a thread that was unregistered while its buffer
\* held a stored trace and its trim point was past the start of the buffer.
C17_Witness ==
  /\ last.op = "profile_frames"
  /\ last.path = "not_registered"
  /\ ~thread_registered
  /\ ~crashed
  /\ traces[0].set
  /\ start_trace_index > 0
  /\ rb_scout_current_trace_index = 0

\* The step ends the innermost open invocation, or moves it to position pc.
InnermostReturns == handlers' = SubSeq(handlers, 1, Len(handlers) - 1)

InnermostGoesTo(pc) == handlers' = [handlers EXCEPT ![Len(handlers)] = pc]

\* The one effect the claim gives an invocation that has set in_handler, for
\* what the VM reports: GC in progress, the owning thread running, and 1 when
\* the deferred capture was queued.
PriorityEffect(during_gc, running, register_result) ==
  IF during_gc
    THEN /\ skipped_in_gc' = skipped_in_gc + 1
         /\ UNCHANGED << skipped_in_signal_handler, skipped_in_job_registered,
                         skipped_in_not_running, job_registered,
                         postponed_jobs >>
  ELSE IF ~running
    THEN /\ skipped_in_not_running' = skipped_in_not_running + 1
         /\ UNCHANGED << skipped_in_gc, skipped_in_signal_handler,
                         skipped_in_job_registered, job_registered,
                         postponed_jobs >>
  ELSE IF job_registered = FALSE /\ register_result = 1
    THEN /\ job_registered' = TRUE
         /\ postponed_jobs' = postponed_jobs + 1
         /\ UNCHANGED skips
  ELSE IF job_registered = FALSE
    THEN /\ skipped_in_job_registered' = skipped_in_job_registered + 1
         /\ UNCHANGED << skipped_in_gc, skipped_in_signal_handler,
                         skipped_in_not_running, job_registered,
                         postponed_jobs >>
  ELSE UNCHANGED << skips, job_registered, postponed_jobs >>

\* C18: under nested delivery, every access of a handler invocation leaves
\* trace_count, the trim indexes and the traces unchanged; an invocation that
\* finds sampling enabled and in_handler true only adds 1 to
\* skipped_in_handler and returns; one that finds it false sets it, has
\* exactly the one effect the priority order gives (GC, not the owning
\* thread, queued, queue full, already pending) and stores false to
\* in_handler before it returns; and in_handler is false whenever no
\* invocation is open.
C18_HandlerEffects ==
  [][/\ handlers' = << >> => in_signal_handler' = FALSE
     /\ \A i \in HandlerInputs :
          (handlers # << >> /\ NestedHandlerAccess(i[1], i[2], i[3]))
            => /\ UNCHANGED << cur_traces_num, start_frame_index,
                               start_trace_index, traces, ok_to_sample >>
               /\ LET pc == handlers[Len(handlers)] IN
                  CASE pc = "h326" ->
                         /\ UNCHANGED << in_signal_handler, job_registered,
                                         postponed_jobs, skips >>
                         /\ IF ok_to_sample = TRUE THEN InnermostGoesTo("h328")
                                                   ELSE InnermostReturns
                    [] pc = "h328" ->
                         /\ UNCHANGED << in_signal_handler, job_registered,
                                         postponed_jobs, skipped_in_gc,
                                         skipped_in_job_registered,
                                         skipped_in_not_running >>
                         /\ IF in_signal_handler = TRUE
                              THEN /\ skipped_in_signal_handler' =
                                        skipped_in_signal_handler + 1
                                   /\ InnermostReturns
                              ELSE /\ UNCHANGED skipped_in_signal_handler
                                   /\ InnermostGoesTo("h334")
                    [] pc = "h334" ->
                         /\ in_signal_handler' = TRUE
                         /\ UNCHANGED << job_registered, postponed_jobs,
                                         skips >>
                         /\ InnermostGoesTo("h336")
                    [] pc = "h336" ->
                         /\ PriorityEffect(i[1], i[2], i[3])
                         /\ UNCHANGED in_signal_handler
                         /\ InnermostGoesTo("h351")
                    [] pc = "h351" ->
                         /\ in_signal_handler' = FALSE
                         /\ UNCHANGED << job_registered, postponed_jobs,
                                         skips >>
                         /\ InnermostReturns]_vars

\* C18 witness: an invocation has queued the deferred capture and is about to
\* store false to in_handler, and a nested invocation that found in_handler
\* true has counted itself in skipped_in_handler and returned.
C18_Witness ==
  /\ handlers = << "h351" >>
  /\ in_signal_handler = TRUE
  /\ job_registered = TRUE
  /\ postponed_jobs = 1
  /\ skipped_in_signal_handler = 1

\* The traces captures have stored in slots from .. to-1 with a positive
\* number of lines, in slot order.
RECURSIVE StoredTraces(_, _)
StoredTraces(from, to) ==
  IF from >= to THEN << >>
  ELSE (IF /\ from \in Slots
           /\ traces[from].set
           /\ traces[from].num_tracelines > 0
          THEN << [index |-> from,
                   num_tracelines |-> traces[from].num_tracelines] >>
          ELSE << >>)
       \o StoredTraces(from + 1, to)

\* C19: on a registered thread with start_trace_index <= trace_count,
\* drain_frames returns exactly the stored traces of slots start_trace_index
\* .. trace_count-1 that have num_tracelines > 0, in slot order and with
\* their num_tracelines lines, and leaves trace_count = start_trace_index,
\* the traces and both trim indexes unchanged.
C19_DrainReturnsStored ==
  [][(/\ thread_registered
      /\ start_trace_index <= cur_traces_num
      /\ rb_scout_profile_frames)
       => /\ last'.path \in {"empty", "traces"}
          /\ last'.ret = StoredTraces(start_trace_index, cur_traces_num)
          /\ cur_traces_num' = start_trace_index
          /\ UNCHANGED << traces, start_trace_index, start_frame_index >>]_vars

\* C20: stop_sampling(reset=false) stores false to _ok_to_sample and, apart
\* from the armed state of the timer, changes nothing else: trace_count, the
\* trim indexes, the traces, the four skip counters, _job_registered and
\* _thread_registered keep their values; and a start_sampling that directly
\* follows it on the registered thread enables sampling with the same
\* trace_count, traces and trim indexes.
C20_StopKeepsBuffer ==
  [][/\ rb_scout_stop_sampling(FALSE)
          => /\ ok_to_sample' = FALSE
             /\ UNCHANGED << cur_traces_num, start_frame_index,
                             start_trace_index, traces, skips, job_registered,
                             thread_registered, in_signal_handler,
                             postponed_jobs, scout_profiling_installed,
                             timer_created, lifecycle, handlers, crashed >>
     /\ (/\ thread_registered
         /\ last.op = "stop_sampling"
         /\ last.path = "keep"
         /\ rb_scout_start_sampling)
          => /\ ok_to_sample' = TRUE
             /\ UNCHANGED << cur_traces_num, start_frame_index,
                             start_trace_index, traces, skips,
                             job_registered >>]_vars

\* C20 witness: stop_sampling(false) has run on a registered thread that
\* holds a stored trace, a trim point past the start of the buffer, a skip
\* count and a queued deferred capture.
C20_Witness ==
  /\ last.op = "stop_sampling"
  /\ last.path = "keep"
  /\ thread_registered
  /\ ok_to_sample = FALSE
  /\ cur_traces_num > 0
  /\ traces[0].set
  /\ start_trace_index > 0
  /\ job_registered = TRUE
  /\ ~AllSkipsZero

\* The sampler of the thread is switched on and has room: the handler is
\* installed, the thread registered, sampling enabled, the timer that signals
\* the thread armed and the buffer not full.
Sampling ==
  /\ scout_profiling_installed
  /\ thread_registered
  /\ ok_to_sample = TRUE
  /\ timer_armed
  /\ cur_traces_num < MAX_TRACES
  /\ start_frame_index + 2 < MaxFrames

\* C21: when the sampler is switched on with trace_count = n and room in the
\* buffer, and the timer keeps firing and the job keeps running under good
\* conditions, then eventually trace_count is above n, unless sampling is
\* switched off first.
C21_EventuallyStores ==
  \A n \in 0 .. (MAX_TRACES - 1) :
    (Sampling /\ cur_traces_num = n) ~> (cur_traces_num > n \/ ~Sampling)

\* C22: every index below trace_count is a slot of the buffer, and a capture
\* has written that slot since the buffer was allocated; these are the slots
\* scoutprof_gc_mark walks.
C22_SlotsBelowCountWritten ==
  \A i \in 0 .. (cur_traces_num - 1) : i \in Slots /\ traces[i].set

\* C23: in every reachable state _ok_to_sample true implies
\* _thread_registered true, and a deferred capture that has just stored a
\* trace did so on a registered thread with sampling enabled.
C23_EnabledImpliesRegistered ==
  /\ ok_to_sample = TRUE => thread_registered = TRUE
  /\ (last.op = "record_sample" /\ last.path = "stored")
       => thread_registered = TRUE /\ ok_to_sample = TRUE

\* C23 witness: a thread that was sampling and holds a stored trace has been
\* unregistered while a deferred capture was still queued: sampling is
\* disabled and the thread not registered.
C23_Witness ==
  /\ last.op = "remove_profiled_thread"
  /\ last.path = "removed"
  /\ ~thread_registered
  /\ ok_to_sample = FALSE
  /\ postponed_jobs > 0
  /\ traces[0].set
====
